---- MODULE Spec2Model ----
(***************************************************************************)
(* Security Hub backend (src/main.py): event logs, per-user settings and   *)
(* the breach-check proxy, as a state machine over the two MongoDB         *)
(* collections, the wall clock and the last request/response exchanged.    *)
(***************************************************************************)
EXTENDS Integers, Sequences, FiniteSets, TLC

VARIABLES
    db,         \* the imported database handle: "present" or None
    clock,      \* datetime.now(timezone.utc), in microseconds
    logs,       \* db["logs"]: documents in insertion (natural) order
    settings,   \* db["settings"]: documents in insertion (natural) order
    pending,    \* upserts that matched no document and have not inserted yet
    resp,       \* the last request handled and the response it got
    lastLog,    \* history: the last POST /api/logs that succeeded with storage
    lastWrite   \* history: per user, the body of the last POST /api/settings that succeeded with storage

vars == <<db, clock, logs, settings, pending, resp, lastLog, lastWrite>>

----------------------------------------------------------------------------
(* Bounds of the model *)

MaxLogs == 2
MaxClock == 1000
MaxPending == 1

----------------------------------------------------------------------------
(* Values *)

None == "<None>"

Users == {"u1", "u2"}

\* user_id values a client may send: absent, empty, or a name
UserIdInputs == {None, ""} \cup Users

DbHandles == {None, "present"}

HibpKeys == {None, "", "key"}

LogTypes == {"phishing_warning", "ad_blocked", "download_scanned",
             "suspicious_behavior", "login", "logout", "settings_change", "info"}

FlagNames == {"ad_blocker_enabled", "phishing_protection_enabled",
              "download_scanner_enabled", "behavior_detector_enabled"}

DefaultLimit == 100

MicrosPerMilli == 1000

TickMicros == MicrosPerMilli \div 2

\* A BSON datetime holds whole milliseconds: insert_one / update_one drop the microseconds
BsonDatetime(t) == (t \div MicrosPerMilli) * MicrosPerMilli

\* str(ObjectId)
Str(oid) == <<"str", oid>>

\* {**old, **new}: the keys of new win
Merge(old, new) ==
    [k \in DOMAIN old \cup DOMAIN new |-> IF k \in DOMAIN new THEN new[k] ELSE old[k]]

Without(doc, key) == [k \in DOMAIN doc \ {key} |-> doc[k]]

\* seq[:n] for n >= 0
Take(seq, n) == [i \in 1..(IF n < Len(seq) THEN n ELSE Len(seq)) |-> seq[i]]

\* Mutant: tests `is None` only, so an empty string counts as given
Truthy_noneOnly(s) == s # None

\* Python truthiness of an Optional[str]
Truthy(s) == s # None /\ s # ""

\* An exchange: the request, the status and body answered, the storage operations
\* the handler started (failed: the last of them raised) and the upstream calls it made
NoResponse ==
    [op |-> "none", req |-> <<>>, status |-> 0, body |-> <<>>, ops |-> <<>>,
     failed |-> FALSE, calls |-> 0]

Response(op, req, status, body, ops, calls) ==
    [op |-> op, req |-> req, status |-> status, body |-> body, ops |-> ops,
     failed |-> FALSE, calls |-> calls]

\* The storage operation raised and nothing caught it: the framework answers 500
Unhandled(op, req, ops) ==
    [op |-> op, req |-> req, status |-> 500, body |-> [detail |-> "Internal Server Error"],
     ops |-> ops, failed |-> TRUE, calls |-> 0]

\* Mutant: the handlers never take the branch for a missing handle
DbIsNone_never == FALSE

\* db is None
DbIsNone == db = None

\* No exchange is in progress: the last response has gone out
Idle == resp.op = "none"

----------------------------------------------------------------------------
(* GET / and GET /test *)

read_root ==
    /\ Idle
    /\ resp' = Response("read_root", <<>>, 200,
                        [message |-> "Security Hub API is running"], <<>>, 0)
    /\ UNCHANGED <<db, clock, logs, settings, pending, lastLog, lastWrite>>

\* db.list_collection_names(): a collection exists once it holds a document
CollectionNames ==
    (IF Len(logs) > 0 THEN <<"logs">> ELSE <<>>) \o (IF Len(settings) > 0 THEN <<"settings">> ELSE <<>>)

\* The database_url and database_name lines, rewritten last from the environment
EnvLine(set) == IF set THEN "Set" ELSE "Not Set"

test_database ==
    \E raises \in BOOLEAN, url_set \in BOOLEAN, name_set \in BOOLEAN :
        LET found ==
                IF DbIsNone
                THEN [database |-> "Available but not initialized",
                      connection_status |-> "Not Connected", collections |-> <<>>]
                ELSE IF raises
                THEN [database |-> "Connected but Error",
                      connection_status |-> "Connected", collections |-> <<>>]
                ELSE [database |-> "Connected & Working",
                      connection_status |-> "Connected",
                      collections |-> Take(CollectionNames, 10)]
        IN
        /\ Idle
        /\ db = None => ~raises
        /\ resp' = Response("test_database", <<>>, 200,
                Merge(found, [backend |-> "Running",
                              database_url |-> EnvLine(url_set),
                              database_name |-> EnvLine(name_set)]),
                IF DbIsNone THEN <<>> ELSE <<"list_collection_names">>, 0)
        /\ UNCHANGED <<db, clock, logs, settings, pending, lastLog, lastWrite>>

----------------------------------------------------------------------------
(* POST /api/logs *)

\* Request bodies a client may send: the last type is not one of the Literal's
LogInputs ==
    { [user_id |-> "u1", type |-> "login", message |-> "signed in", data |-> "{ip}"],
      [user_id |-> None, type |-> "info", message |-> "started", data |-> None],
      [user_id |-> "u2", type |-> "bogus", message |-> "x", data |-> None] }

\* pydantic's validation of a LogEntry body
LogEntryValid(entry) == entry.type \in LogTypes

\* Mutant: the timestamp is cut to whole seconds
LogDocument_wholeSeconds(entry, oid, now) ==
    [_id |-> oid, user_id |-> entry.user_id, type |-> entry.type,
     message |-> entry.message, data |-> entry.data,
     created_at |-> (now \div (1000 * MicrosPerMilli)) * (1000 * MicrosPerMilli)]

\* entry.model_dump() plus created_at, as insert_one stores it under a fresh _id
LogDocument(entry, oid, now) ==
    [_id |-> oid, user_id |-> entry.user_id, type |-> entry.type,
     message |-> entry.message, data |-> entry.data,
     created_at |-> BsonDatetime(now)]

\* Mutant: the write replaces what is stored
InsertOne_replace(coll, doc) == <<doc>>

\* insert_one(doc)
InsertOne(coll, doc) == Append(coll, doc)

add_log ==
    \E entry \in LogInputs, raises \in BOOLEAN :
        /\ Idle
        /\ db = None => ~raises
        /\ LogEntryValid(entry) /\ db # None /\ ~raises => Len(logs) < MaxLogs
        /\ IF ~LogEntryValid(entry)
           THEN /\ resp' = Response("add_log", entry, 422, [detail |-> "validation"], <<>>, 0)
                /\ UNCHANGED <<logs, lastLog>>
           ELSE IF DbIsNone
           THEN /\ resp' = Response("add_log", entry, 200,
                        [status |-> "ok", warning |-> "database not configured"], <<>>, 0)
                /\ UNCHANGED <<logs, lastLog>>
           ELSE IF raises
           THEN /\ resp' = Unhandled("add_log", entry, <<"logs.insert_one">>)
                /\ UNCHANGED <<logs, lastLog>>
           ELSE /\ logs' = InsertOne(logs, LogDocument(entry, Len(logs) + 1, clock))
                /\ lastLog' = <<[entry |-> entry, oid |-> Len(logs) + 1, received |-> clock]>>
                /\ resp' = Response("add_log", entry, 200, [status |-> "ok"],
                                    <<"logs.insert_one">>, 0)
        /\ UNCHANGED <<db, clock, settings, pending, lastWrite>>

----------------------------------------------------------------------------
(* GET /api/logs *)

Limits == {-1, 0, 1, DefaultLimit}

\* Orders a sort leaves open between documents of equal created_at
TieOrders == {"natural", "reverse"}

MaxOf(S) == CHOOSE x \in S : \A y \in S : y <= x
MinOf(S) == CHOOSE x \in S : \A y \in S : x <= y

\* find(flt): the documents matching the filter, in natural order
Find(coll, flt) ==
    SelectSeq(coll, LAMBDA d : \A k \in DOMAIN flt : d[k] = flt[k])

RECURSIVE SortFrom(_, _, _)
SortFrom(docs, S, tie) ==
    IF S = {} THEN <<>>
    ELSE LET top  == MaxOf({docs[i].created_at : i \in S})
             ties == {i \in S : docs[i].created_at = top}
             pick == IF tie = "natural" THEN MinOf(ties) ELSE MaxOf(ties)
         IN  <<docs[pick]>> \o SortFrom(docs, S \ {pick}, tie)

\* .sort("created_at", -1)
SortCreatedAtDesc(docs, tie) == SortFrom(docs, DOMAIN docs, tie)

Abs(n) == IF n < 0 THEN -n ELSE n

\* Mutant: the cursor is not limited
LimitCursor_unlimited(docs, n) == docs

\* .limit(n): 0 is no limit, a negative n is a single batch of at most |n|
LimitCursor(docs, n) == IF n = 0 THEN docs ELSE Take(docs, Abs(n))

\* it["_id"] = str(it["_id"]) on every returned item
Stringified(items) ==
    [i \in DOMAIN items |-> Merge(items[i], [_id |-> Str(items[i]["_id"])])]

LogsFilter(user_id) == IF Truthy(user_id) THEN [user_id |-> user_id] ELSE <<>>

get_logs ==
    \E user_id \in UserIdInputs, limit \in Limits, raises \in BOOLEAN, tie \in TieOrders :
        LET req == [user_id |-> user_id, limit |-> limit] IN
        /\ Idle
        /\ db = None => ~raises /\ tie = "natural"
        /\ raises => tie = "natural"
        /\ resp' =
            IF DbIsNone
            THEN Response("get_logs", req, 200, [items |-> <<>>], <<>>, 0)
            ELSE IF raises
            THEN Unhandled("get_logs", req, <<"logs.find">>)
            ELSE Response("get_logs", req, 200,
                    [items |-> Stringified(LimitCursor(
                        SortCreatedAtDesc(Find(logs, LogsFilter(user_id)), tie), limit))],
                    <<"logs.find">>, 0)
        /\ UNCHANGED <<db, clock, logs, settings, pending, lastLog, lastWrite>>

----------------------------------------------------------------------------
(* POST /api/settings *)

AllTrue == [k \in FlagNames |-> TRUE]

\* Flag parts of the request bodies a client may send: a flag left out is absent
FlagInputs ==
    { <<>>,
      [ad_blocker_enabled |-> FALSE, download_scanner_enabled |-> TRUE],
      [phishing_protection_enabled |-> FALSE, behavior_detector_enabled |-> FALSE] }

\* The JSON body: user_id is absent when the client sends none
SettingsBody(user_id, flags) ==
    IF user_id = None THEN flags ELSE Merge([user_id |-> user_id], flags)

\* SettingsPayload(**body): every field left out takes its default
SettingsPayload(body) ==
    [k \in {"user_id"} \cup FlagNames |->
        IF k \in DOMAIN body THEN body[k]
        ELSE IF k = "user_id" THEN None ELSE TRUE]

\* payload.model_dump() plus updated_at: the $set document
SettingsDocument(payload, now) == Merge(payload, [updated_at |-> BsonDatetime(now)])

FirstMatch(coll, flt) ==
    MinOf({i \in DOMAIN coll : \A k \in DOMAIN flt : coll[i][k] = flt[k]})

HasMatch(coll, flt) == Len(Find(coll, flt)) > 0

\* the document an upsert inserts when nothing matched: the filter's fields and the $set fields
Upserted(coll, flt, set) == Merge(Merge(flt, set), [_id |-> Len(coll) + 1])

\* Mutant: $setOnInsert in place of $set, a matched document stays as it is
UpdateOneUpsert_insertOnly(coll, flt, set) ==
    IF HasMatch(coll, flt) THEN coll ELSE Append(coll, Upserted(coll, flt, set))

\* update_one(flt, {"$set": set}, upsert=True) taken as one step
UpdateOneUpsert(coll, flt, set) ==
    IF HasMatch(coll, flt)
    THEN [coll EXCEPT ![FirstMatch(coll, flt)] = Merge(@, set)]
    ELSE Append(coll, Upserted(coll, flt, set))

save_settings ==
    \E user_id \in UserIdInputs, flags \in FlagInputs, raises \in BOOLEAN :
        LET body    == SettingsBody(user_id, flags)
            payload == SettingsPayload(body)
        IN
        /\ Idle
        /\ (db = None \/ ~Truthy(payload.user_id)) => ~raises
        /\ IF ~Truthy(payload.user_id)
           THEN /\ resp' = Response("save_settings", body, 400,
                        [detail |-> "user_id required for settings sync"], <<>>, 0)
                /\ UNCHANGED <<settings, lastWrite>>
           ELSE IF DbIsNone
           THEN /\ resp' = Response("save_settings", body, 200,
                        [status |-> "ok", warning |-> "database not configured"], <<>>, 0)
                /\ UNCHANGED <<settings, lastWrite>>
           ELSE IF raises
           THEN /\ resp' = Unhandled("save_settings", body, <<"settings.update_one">>)
                /\ UNCHANGED <<settings, lastWrite>>
           ELSE /\ settings' = UpdateOneUpsert(settings, [user_id |-> payload.user_id],
                                               SettingsDocument(payload, clock))
                /\ lastWrite' = [lastWrite EXCEPT ![payload.user_id] = <<body>>]
                /\ resp' = Response("save_settings", body, 200, [status |-> "ok"],
                                    <<"settings.update_one">>, 0)
        /\ UNCHANGED <<db, clock, logs, pending, lastLog>>

----------------------------------------------------------------------------
(* GET /api/settings *)

\* user_id values asked for: the two writers and one that never writes
FetchUserIds == Users \cup {"u3"}

fetch_settings ==
    \E user_id \in FetchUserIds, raises \in BOOLEAN :
        LET req == [user_id |-> user_id]
            flt == [user_id |-> user_id]
        IN
        /\ Idle
        /\ db = None => ~raises
        /\ resp' =
            IF DbIsNone
            THEN Response("fetch_settings", req, 200, AllTrue, <<>>, 0)
            ELSE IF raises
            THEN Unhandled("fetch_settings", req, <<"settings.find_one">>)
            ELSE IF ~HasMatch(settings, flt)
            THEN Response("fetch_settings", req, 200, AllTrue, <<"settings.find_one">>, 0)
            ELSE Response("fetch_settings", req, 200,
                          Without(settings[FirstMatch(settings, flt)], "_id"),
                          <<"settings.find_one">>, 0)
        /\ UNCHANGED <<db, clock, logs, settings, pending, lastLog, lastWrite>>

----------------------------------------------------------------------------
(* POST /api/settings under concurrent requests: the server finds no document *)
(* for the filter, and inserts one in a later step; no unique index on        *)
(* user_id stands between the two.                                            *)

\* The storage adapter hands out the database handle and creates no index
SettingsIndexUnique == FALSE

save_settings_match ==
    \E user_id \in Users, flags \in FlagInputs :
        LET body    == SettingsBody(user_id, flags)
            payload == SettingsPayload(body)
        IN
        /\ db # None
        /\ Len(pending) < MaxPending
        /\ ~HasMatch(settings, [user_id |-> payload.user_id])
        /\ pending' = Append(pending, [body |-> body, now |-> clock])
        /\ UNCHANGED <<db, clock, logs, settings, resp, lastLog, lastWrite>>

save_settings_insert ==
    \E i \in DOMAIN pending :
        LET body    == pending[i].body
            payload == SettingsPayload(body)
        IN
        /\ Idle
        /\ settings' =
                IF SettingsIndexUnique
                THEN UpdateOneUpsert(settings, [user_id |-> payload.user_id],
                                     SettingsDocument(payload, pending[i].now))
                ELSE InsertOne(settings,
                        Upserted(settings, [user_id |-> payload.user_id],
                                 SettingsDocument(payload, pending[i].now)))
        /\ pending' = [j \in 1..(Len(pending) - 1) |->
                            IF j < i THEN pending[j] ELSE pending[j + 1]]
        /\ lastWrite' = [lastWrite EXCEPT ![payload.user_id] = <<body>>]
        /\ resp' = Response("save_settings", body, 200, [status |-> "ok"],
                            <<"settings.update_one">>, 0)
        /\ UNCHANGED <<db, clock, logs, lastLog>>

----------------------------------------------------------------------------
(* GET /api/breach-check *)

Emails == {"a@b.co", "not-an-email"}

\* pydantic's EmailStr
EmailValid(email) == email = "a@b.co"

\* What the call to haveibeenpwned.com may come to: a response or a failure of requests.get
Upstreams ==
    [kind : {"response"}, status_code : {200}, json : {"list"}, n : 0..2]
    \cup [kind : {"response"}, status_code : {200}, json : {"invalid"}, n : {0}]
    \cup [kind : {"response"}, status_code : {404, 429, 503}, json : {"invalid"}, n : {0}]
    \cup [kind : {"ConnectionError", "Timeout"}, status_code : {0}, json : {"invalid"}, n : {0}]

NoUpstream == [kind |-> "none", status_code |-> 0, json |-> "invalid", n |-> 0]

Returned(body) == [raised |-> FALSE, status_code |-> 200, body |-> body]
Raised(status_code) == [raised |-> TRUE, status_code |-> status_code, body |-> [detail |-> "error"]]

\* Mutant: exposed needs more than one record
BreachTry_offByOne(email, up) ==
    IF up.kind # "response" THEN Raised(0)
    ELSE IF up.status_code = 200
    THEN IF up.json # "list" THEN Raised(0)
         ELSE Returned([email |-> email, exposed |-> up.n > 1, count |-> up.n, source |-> "hibp"])
    ELSE IF up.status_code = 404
    THEN Returned([email |-> email, exposed |-> FALSE, source |-> "hibp"])
    ELSE Raised(up.status_code)

\* The body of the try block: what it returns or raises
BreachTry(email, up) ==
    IF up.kind # "response" THEN Raised(0)                    \* requests.get raises
    ELSE IF up.status_code = 200
    THEN IF up.json # "list" THEN Raised(0)                    \* r.json() raises
         ELSE Returned([email |-> email, exposed |-> up.n > 0, count |-> up.n, source |-> "hibp"])
    ELSE IF up.status_code = 404
    THEN Returned([email |-> email, exposed |-> FALSE, source |-> "hibp"])
    ELSE Raised(up.status_code)                                \* raise HTTPException(r.status_code)

\* except Exception: whatever the try block raised, the HTTPException too, becomes a 500
BreachExcept(outcome) == IF outcome.raised THEN Raised(500) ELSE outcome

breach_check ==
    \E email \in Emails, key \in HibpKeys, up \in Upstreams \cup {NoUpstream} :
        LET req  == [email |-> email, hibp_key |-> key, upstream |-> up]
            call == EmailValid(email) /\ Truthy(key)
            out  == BreachExcept(BreachTry(email, up))
        IN
        /\ Idle
        /\ call <=> up # NoUpstream
        /\ ~EmailValid(email) => key = None
        /\ resp' =
            IF ~EmailValid(email)
            THEN Response("breach_check", req, 422, [detail |-> "validation"], <<>>, 0)
            ELSE IF ~Truthy(key)
            THEN Response("breach_check", req, 200,
                          [email |-> email, exposed |-> FALSE, source |-> "none"], <<>>, 0)
            ELSE Response("breach_check", req, out.status_code, out.body, <<>>, 1)
        /\ UNCHANGED <<db, clock, logs, settings, pending, lastLog, lastWrite>>

----------------------------------------------------------------------------
(* The wall clock *)

Tick ==
    /\ Idle
    /\ clock + TickMicros <= MaxClock
    /\ clock' = clock + TickMicros
    /\ UNCHANGED <<db, logs, settings, pending, resp, lastLog, lastWrite>>

\* The response goes out to the client
respond ==
    /\ ~Idle
    /\ resp' = NoResponse
    /\ UNCHANGED <<db, clock, logs, settings, pending, lastLog, lastWrite>>

----------------------------------------------------------------------------

Init ==
    /\ db \in DbHandles
    /\ clock = 0
    /\ logs = <<>>
    /\ settings = <<>>
    /\ pending = <<>>
    /\ resp = NoResponse
    /\ lastLog = <<>>
    /\ lastWrite = [u \in Users |-> <<>>]

Next ==
    \/ Tick
    \/ read_root
    \/ test_database
    \/ add_log
    \/ get_logs
    \/ save_settings
    \/ fetch_settings
    \/ breach_check
    \/ respond

Spec == Init /\ [][Next]_vars

\* The requests on the settings collection, the upsert taken in its two steps as well
NextConcurrent ==
    \/ Tick
    \/ save_settings
    \/ save_settings_match
    \/ save_settings_insert
    \/ fetch_settings
    \/ respond

SpecConcurrent == Init /\ [][NextConcurrent]_vars

----------------------------------------------------------------------------
(* Properties *)

\* The flags a settings body carries: a flag left out counts as true
Carried(body) == [f \in FlagNames |-> IF f \in DOMAIN body THEN body[f] ELSE TRUE]

FetchAnswered == resp.op = "fetch_settings" /\ resp.status = 200 /\ db # None

\* C1: with storage available, GET /api/settings for X answers the four flags of the
\* last successful POST /api/settings for X, a flag left out of that POST being true,
\* and all four true for an X never written.
C1_SettingsReadBack ==
    FetchAnswered =>
        LET u == resp.req.user_id
            expected == IF u \in Users /\ Len(lastWrite[u]) > 0
                        THEN Carried(lastWrite[u][1]) ELSE AllTrue
        IN  \A f \in FlagNames : resp.body[f] = expected[f]

\* a read of a user whose last body left flags out and set another one false
C1_Witness ==
    /\ FetchAnswered
    /\ resp.req.user_id \in Users
    /\ Len(lastWrite[resp.req.user_id]) > 0
    /\ \E f \in FlagNames : ~resp.body[f]
    /\ \E f \in FlagNames : f \notin DOMAIN lastWrite[resp.req.user_id][1] /\ resp.body[f]

BreachCalled == resp.op = "breach_check" /\ resp.calls = 1

\* C2: with a key configured, an upstream status other than 200 and 404 fails the
\* request with that same status, and a network error or timeout fails it with 500.
C2_UpstreamStatusPassThrough ==
    BreachCalled =>
        LET up == resp.req.upstream IN
        /\ (up.kind = "response" /\ up.status_code \notin {200, 404}) =>
                resp.status = up.status_code
        /\ up.kind # "response" => resp.status = 500

LogsAnswered == resp.op = "get_logs" /\ resp.status = 200

NonIncreasing(items) ==
    \A i, j \in DOMAIN items : i < j => items[i].created_at >= items[j].created_at

\* C3 as stated: for any integer limit, 0 and negatives too, GET /api/logs answers a
\* list non-increasing in created_at and of length at most limit.
C3_LengthAtMostLimit ==
    LogsAnswered =>
        /\ NonIncreasing(resp.body.items)
        /\ Len(resp.body.items) <= resp.req.limit

Matching(user_id) ==
    {i \in DOMAIN logs : Truthy(user_id) => logs[i].user_id = user_id}

\* C3, amended: the list is non-increasing in created_at; its length is at most limit
\* for a positive limit and at most -limit for a negative one; a limit of 0 does not
\* truncate: every matching entry is returned.
C3_SortedAndLimited ==
    LogsAnswered =>
        LET items == resp.body.items
            limit == resp.req.limit
        IN
        /\ NonIncreasing(items)
        /\ limit > 0 => Len(items) <= limit
        /\ limit < 0 => Len(items) <= -limit
        /\ (limit = 0 /\ db # None) => Len(items) = Cardinality(Matching(resp.req.user_id))

\* two entries of different timestamps match and the limit leaves the later one only
C3_Witness ==
    /\ LogsAnswered
    /\ resp.req.limit = 1
    /\ Cardinality(Matching(resp.req.user_id)) = 2
    /\ \E i, j \in Matching(resp.req.user_id) : logs[i].created_at < logs[j].created_at
    /\ Len(resp.body.items) = 1
    /\ resp.body.items[1].created_at = BsonDatetime(clock)

UserIdMissing(body) == "user_id" \notin DOMAIN body \/ body.user_id = ""

\* C4: POST /api/settings without a user_id, or with an empty one, fails with 400
\* whatever the flags and whether or not storage is available, starts no storage
\* operation and leaves the settings collection as it was.
C4_MissingUserIdRejected ==
    [][ (Idle /\ resp'.op = "save_settings" /\ UserIdMissing(resp'.req)) =>
            /\ resp'.status = 400
            /\ resp'.ops = <<>>
            /\ settings' = settings ]_vars

\* a rejected write with storage available and a document stored
C4_Witness ==
    /\ resp.op = "save_settings"
    /\ UserIdMissing(resp.req)
    /\ resp.status = 400
    /\ db # None
    /\ Len(settings) > 0
    /\ \E f \in FlagNames \cap DOMAIN resp.req : ~resp.req[f]

SoftWarned == 
    /\ resp.status = 200
    /\ resp.body.status = "ok"
    /\ "warning" \in DOMAIN resp.body

\* C5: without a database handle every endpoint answers a valid request successfully
\* with its default and starts no storage operation: the two POSTs with status ok and
\* a warning, GET /api/logs with no items, GET /api/settings with the four flags true,
\* GET / and GET /test with success.
C5_NoDatabaseDegrades ==
    db = None =>
        /\ logs = <<>> /\ settings = <<>>
        /\ resp.ops = <<>>
        /\ (resp.op = "add_log" /\ LogEntryValid(resp.req)) => SoftWarned
        /\ (resp.op = "save_settings" /\ ~UserIdMissing(resp.req)) => SoftWarned
        /\ resp.op = "get_logs" => resp.status = 200 /\ resp.body.items = <<>>
        /\ resp.op = "fetch_settings" => resp.status = 200 /\ resp.body = AllTrue
        /\ resp.op \in {"read_root", "test_database"} => resp.status = 200

\* a settings write answered with the warning
C5_Witness ==
    /\ db = None
    /\ resp.op = "save_settings"
    /\ ~UserIdMissing(resp.req)
    /\ SoftWarned

\* C6: when the handle is present and the read raises, GET /api/logs still succeeds
\* with no items and GET /api/settings with the four flags true.
C6_ReadFailureDegrades ==
    (db # None /\ resp.failed) =>
        /\ resp.op = "get_logs" => resp.status = 200 /\ resp.body = [items |-> <<>>]
        /\ resp.op = "fetch_settings" => resp.status = 200 /\ resp.body = AllTrue

\* A GET /api/logs with the default limit that may see the last entry posted
ReadsLastLog ==
    /\ LogsAnswered
    /\ db # None
    /\ resp.req.limit = DefaultLimit
    /\ Len(lastLog) > 0
    /\ Truthy(resp.req.user_id) => resp.req.user_id = lastLog[1].entry.user_id

\* The returned items that are the last entry posted, unchanged
Posted(items) ==
    {i \in DOMAIN items :
        /\ items[i]["_id"] = Str(lastLog[1].oid)
        /\ items[i].type = lastLog[1].entry.type
        /\ items[i].message = lastLog[1].entry.message
        /\ items[i].user_id = lastLog[1].entry.user_id
        /\ items[i].data = lastLog[1].entry.data}

\* C7 as stated: after a POST /api/logs succeeded with storage, a GET /api/logs with
\* the default limit returns the entry as posted, with a created_at not earlier than
\* the time the POST was received.
C7_CreatedAtNotBeforeReceipt ==
    ReadsLastLog =>
        \E i \in Posted(resp.body.items) :
            resp.body.items[i].created_at >= lastLog[1].received

\* The entries the sort may place before the last one posted
AtOrAfterLast ==
    {i \in Matching(resp.req.user_id) :
        i # lastLog[1].oid /\ logs[i].created_at >= logs[lastLog[1].oid].created_at}

\* C7, amended: the entry is returned as posted with a created_at less than one
\* millisecond before the time the POST was received (the stored timestamp holds
\* whole milliseconds), provided fewer than 100 other matching entries have a
\* created_at at or after its own.
C7_PostedLogIsReturned ==
    (ReadsLastLog /\ Cardinality(AtOrAfterLast) < DefaultLimit) =>
        \E i \in Posted(resp.body.items) :
            /\ resp.body.items[i].created_at + MicrosPerMilli > lastLog[1].received
            /\ resp.body.items[i].created_at <= clock

\* the entry was posted half a millisecond into a millisecond, after another entry
C7_Witness ==
    /\ ReadsLastLog
    /\ Len(resp.body.items) = 2
    /\ lastLog[1].oid = 2
    /\ lastLog[1].received = MicrosPerMilli + TickMicros \/ lastLog[1].received = TickMicros
    /\ Posted(resp.body.items) # {}

\* C8: under any interleaving of POST /api/settings requests the settings collection
\* holds at most one document per user_id.
C8_OneDocumentPerUser ==
    \A i, j \in DOMAIN settings :
        settings[i].user_id = settings[j].user_id => i = j

\* C9: the logs collection is append-only: a POST /api/logs that succeeds with
\* storage adds exactly one document, and no step removes a stored document or
\* changes one.
C9_LogsAppendOnly ==
    [][ /\ Len(logs') >= Len(logs)
        /\ \A i \in DOMAIN logs : logs'[i] = logs[i]
        /\ (Idle /\ resp'.op = "add_log" /\ resp'.status = 200 /\ db # None) =>
                Len(logs') = Len(logs) + 1
        /\ ~(Idle /\ resp'.op = "add_log") => logs' = logs ]_vars

\* two entries are stored and a later request of another endpoint was answered
C9_Witness ==
    /\ Len(logs) = 2
    /\ resp.op = "save_settings"
    /\ resp.status = 200

BreachAnswered == resp.op = "breach_check" /\ resp.status # 422

\* C10: for a format-valid email: without a key the answer is exposed=false,
\* source=none and no upstream call is made; with a key and upstream 404 it is
\* exposed=false, source=hibp; with a key and upstream 200 carrying a list of n
\* records it is exposed=(n>0), count=n, source=hibp. At most one upstream call is made.
C10_BreachResult ==
    BreachAnswered =>
        LET up == resp.req.upstream IN
        /\ resp.calls <= 1
        /\ ~Truthy(resp.req.hibp_key) =>
                /\ resp.calls = 0
                /\ resp.status = 200
                /\ resp.body = [email |-> resp.req.email, exposed |-> FALSE, source |-> "none"]
        /\ (Truthy(resp.req.hibp_key) /\ up.kind = "response" /\ up.status_code = 404) =>
                /\ resp.status = 200
                /\ resp.body = [email |-> resp.req.email, exposed |-> FALSE, source |-> "hibp"]
        /\ (Truthy(resp.req.hibp_key) /\ up.kind = "response" /\ up.status_code = 200
                /\ up.json = "list") =>
                /\ resp.status = 200
                /\ resp.body = [email |-> resp.req.email, exposed |-> up.n > 0,
                                count |-> up.n, source |-> "hibp"]

\* upstream answered 200 with a list of one record
C10_Witness ==
    /\ BreachAnswered
    /\ resp.calls = 1
    /\ resp.req.upstream.status_code = 200
    /\ resp.req.upstream.json = "list"
    /\ resp.req.upstream.n = 1
    /\ resp.body.exposed

====
